---- MODULE Spec2Model ----
(***************************************************************************)
(* Presentation export (PPTX download route) of masapasa/businessweb.      *)
(*                                                                         *)
(* Lengths are integers in units of 1/720 inch, so that every constant of  *)
(* the source (0.05, 0.1, 0.2, 2.35, 2.775, fontSize * 1.5 / 72, ...) is   *)
(* exact. The canvas is 10in x 5.625in = 7200 x 4050 units.                *)
(*                                                                         *)
(* The layout engine and the handler modelled under Spec are the ones of   *)
(* src/src/app/api/presentation/download/route.ts, lines 271-674.          *)
(***************************************************************************)
EXTENDS Integers, Sequences, FiniteSets, TLC

VARIABLES
    themes,   \* the theme registry object (module-level, shared by all exports)
    req,      \* the request being served (with what the document store returns)
    pc,       \* position of the handler: "start", "slides", "done"
    idx,      \* index of the next slide to compose
    theme,    \* the theme resolved for this export
    deck,     \* the slides added to the PptxGenJS deck so far
    resp,     \* the response returned, once pc = "done"
    exports   \* number of exports this server has finished before this one

vars == <<themes, req, pc, idx, theme, deck, resp, exports>>

----------------------------------------------------------------------------
(* Bounds of the model *)

\* most slides in one presentation
MaxSlides == 2
\* most children of a container node (columns of a column node, items of a
\* column item, bullets of a list)
MaxKids == 2

----------------------------------------------------------------------------
(* Units and small helpers *)

Inch(n, d) == (n * 720) \div d
CanvasW == Inch(10, 1)
CanvasH == Inch(5625, 1000)
PctW(p) == (CanvasW * p) \div 100
PctH(p) == (CanvasH * p) \div 100

Max2(a, b) == IF a >= b THEN a ELSE b
SetMax(S) == CHOOSE m \in S : \A k \in S : k <= m
SetMin(S) == CHOOSE m \in S : \A k \in S : m <= k

\* all sequences over S of length 0..n
SeqsUpTo(S, n) == UNION {[1..k -> S] : k \in 0..n}

----------------------------------------------------------------------------
(* Text: a string is a sequence of one-character strings *)

IsSpace(c) == c \in {" ", "\n", "\t"}

\* String.prototype.trim
trim(s) ==
    LET keep == {i \in 1..Len(s) : ~IsSpace(s[i])}
    IN  IF keep = {} THEN <<>> ELSE SubSeq(s, SetMin(keep), SetMax(keep))

\* JavaScript truthiness of a string
truthy(s) == Len(s) > 0

\* color.replace("#", ""): the first "#" is removed
stripHash(c) ==
    LET at == {i \in 1..Len(c) : c[i] = "#"}
    IN  IF at = {} THEN c
        ELSE SubSeq(c, 1, SetMin(at) - 1) \o SubSeq(c, SetMin(at) + 1, Len(c))

----------------------------------------------------------------------------
(* Content nodes (Plate nodes).                                            *)
(* A text leaf has no type (type = ""), a text and style marks; an element *)
(* has a type, children, possibly marks and possibly a url.                *)

Leaf(t, m) == [type |-> "", text |-> t, marks |-> m, url |-> "", children |-> <<>>]
Elem(ty, m, kids) == [type |-> ty, text |-> <<>>, marks |-> m, url |-> "", children |-> kids]
Img(u, kids) == [type |-> "img", text |-> <<>>, marks |-> {}, url |-> u, children |-> kids]

\* image paths: one that PptxGenJS accepts and can fetch, one for which
\* slide.addImage throws, one accepted by addImage that cannot be fetched
\* when the deck is written
UrlOk == "https://img.example/ok.png"
UrlInvalid == "::invalid::"
UrlDead == "https://img.example/unreachable.png"

----------------------------------------------------------------------------
(* Themes *)

White == <<"#", "F", "F", "F", "F", "F", "F">>
Black == <<"#", "0", "0", "0", "0", "0", "0">>
Ink == <<"#", "1", "1", "1", "8", "2", "7">>
Grey == <<"#", "6", "B", "7", "2", "8", "0">>
Night == <<"#", "1", "0", "1", "0", "1", "0">>
Mist == <<"#", "E", "5", "E", "7", "E", "B">>

Palette(bg, tx, hd, mu) == [background |-> bg, text |-> tx, heading |-> hd, muted |-> mu]

\* a ThemeProperties object; shape = "empty" is an object without colors/fonts
Properties(light, dark) ==
    [shape |-> "full", light |-> light, dark |-> dark,
     fonts |-> [heading |-> "Inter", body |-> "Georgia"]]
EmptyObject ==
    [shape |-> "empty", light |-> Palette(<<>>, <<>>, <<>>, <<>>),
     dark |-> Palette(<<>>, <<>>, <<>>, <<>>),
     fonts |-> [heading |-> "", body |-> ""]]

LightProps == Properties(Palette(White, Ink, Black, Grey), Palette(Night, White, White, Mist))
DarkProps == Properties(Palette(Night, Mist, White, Grey), Palette(Night, White, White, Mist))

\* the registry "@/lib/presentation/themes"
ThemeNames == {"daktilo", "noir"}
themesInit == [n \in ThemeNames |-> IF n = "daktilo" THEN LightProps ELSE DarkProps]

\* A theme reference as it arrives: kind is the JavaScript type of the value
\*   "undefined", "null", "number"
\*   "string"  with name
\*   "object"  with hasName/hasProperties telling which keys it owns; inner
\*             is the value of its .properties key, props is the object
\*             itself read as ThemeProperties
ThemeRef(kind, name, hasName, hasProps, props, inner) ==
    [kind |-> kind, name |-> name, hasName |-> hasName, hasProperties |-> hasProps,
     props |-> props, inner |-> inner]
RefUndefined == ThemeRef("undefined", "", FALSE, FALSE, EmptyObject, EmptyObject)
RefNull == ThemeRef("null", "", FALSE, FALSE, EmptyObject, EmptyObject)
RefNumber == ThemeRef("number", "", FALSE, FALSE, EmptyObject, EmptyObject)
RefName(n) == ThemeRef("string", n, FALSE, FALSE, EmptyObject, EmptyObject)
RefInline(p) == ThemeRef("object", "", FALSE, FALSE, p, EmptyObject)
RefResolved(n, p) == ThemeRef("object", n, TRUE, TRUE, EmptyObject, p)

\* A Theme: {name, properties}. "registry" names the registry entry whose
\* object .properties is (by reference), "" when it is an object of its own.
Theme(n, p, reg) == [isNull |-> FALSE, name |-> n, properties |-> p, registry |-> reg]
NullTheme == [isNull |-> TRUE, name |-> "", properties |-> EmptyObject, registry |-> ""]

resolveTheme(themeData, registry) ==
    IF themeData.kind = "object"
    THEN IF themeData.hasProperties /\ themeData.hasName
         THEN Theme(themeData.name, themeData.inner, "")
         ELSE Theme("Custom", themeData.props, "")
    ELSE IF themeData.kind = "string" /\ themeData.name \in DOMAIN registry
         THEN Theme(themeData.name, registry[themeData.name], themeData.name)
         ELSE NullTheme

----------------------------------------------------------------------------
(* Drawing commands appended to a slide *)

NoStyle ==
    [color |-> <<>>, fontFace |-> "", fontSize |-> 0, bold |-> FALSE,
     align |-> "", bullet |-> FALSE]

TextCmd(x, y, w, h, runs, label, style) ==
    [kind |-> "text", x |-> x, y |-> y, w |-> w, h |-> h, runs |-> runs,
     label |-> label, path |-> "", sizing |-> "", style |-> style]
ImageCmd(x, y, w, h, path, sizing) ==
    [kind |-> "image", x |-> x, y |-> y, w |-> w, h |-> h, runs |-> <<>>,
     label |-> "", path |-> path, sizing |-> sizing, style |-> NoStyle]
ShapeCmd(x, y, w, h) ==
    [kind |-> "shape", x |-> x, y |-> y, w |-> w, h |-> h, runs |-> <<>>,
     label |-> "", path |-> "", sizing |-> "", style |-> NoStyle]

\* slide.addImage of PptxGenJS: whether the call throws for this path
addImageThrows(path) == path = UrlInvalid
\* pptx.write of PptxGenJS: whether fetching this path fails
fetchFails(path) == path = UrlDead

----------------------------------------------------------------------------
(* Rich-text extraction *)

\* the option a mark of a child sets (strikethrough sets strike)
markOption(m) == IF m = "strikethrough" THEN "strike" ELSE m
withMarks(options, child) == options \cup {markOption(m) : m \in child.marks}

RECURSIVE traverse(_, _)
traverse(children, options) ==
    IF Len(children) = 0 THEN <<>>
    ELSE LET child == Head(children)
             newOptions == withMarks(options, child)
             mine == IF truthy(child.text)
                     THEN <<[text |-> child.text, options |-> newOptions]>>
                     ELSE traverse(child.children, newOptions)
         IN  mine \o traverse(Tail(children), options)

getRichTextFromNode(node) == traverse(node.children, {})

----------------------------------------------------------------------------
(* Node style *)

HeadingStyle(th, size, bold) ==
    [color |-> stripHash(th.properties.light.heading),
     fontFace |-> th.properties.fonts.heading, fontSize |-> size, bold |-> bold,
     align |-> "", bullet |-> FALSE]
BodyStyle(th, color, size, bullet) ==
    [color |-> stripHash(color), fontFace |-> th.properties.fonts.body,
     fontSize |-> size, bold |-> FALSE, align |-> "", bullet |-> bullet]

getTextNodeStyle(node, th) ==
    CASE node.type = "h1" -> HeadingStyle(th, 36, TRUE)
      [] node.type = "h2" -> HeadingStyle(th, 28, TRUE)
      [] node.type = "h3" -> HeadingStyle(th, 24, TRUE)
      [] node.type = "h4" -> HeadingStyle(th, 20, TRUE)
      [] node.type = "h5" -> HeadingStyle(th, 18, FALSE)
      [] node.type = "h6" -> BodyStyle(th, th.properties.light.muted, 16, FALSE)
      [] node.type = "p" -> BodyStyle(th, th.properties.light.text, 14, FALSE)
      [] node.type = "bullet" -> BodyStyle(th, th.properties.light.text, 14, TRUE)
      [] OTHER -> BodyStyle(th, th.properties.light.text, 16, FALSE)

----------------------------------------------------------------------------
(* Block layout engine.                                                    *)
(* A layout step returns [y, cmds, ok, calls]: the new cursor, the         *)
(* commands it appended to the slide, ok = FALSE when it threw (cmds are   *)
(* then the commands appended before the throw), and the processNode calls *)
(* it made, each recorded with its arguments and its result.               *)

Result(y, cmds, ok, calls) == [y |-> y, cmds |-> cmds, ok |-> ok, calls |-> calls, placed |-> 0]

Call(node, area, y, r) ==
    [node |-> node, x |-> area.x, w |-> area.w, y |-> y, ret |-> r.y,
     cmds |-> r.cmds, ok |-> r.ok]

Area(x, y, w, h) == [x |-> x, y |-> y, w |-> w, h |-> h]

\* gap after an inline image and after a column block: 0.2
ImageGap == 144
ColumnGap == 144
\* gap after a text block: 0.1
TextGap == 72
\* height of an inline image: 2
ImageHeight == 1440
\* indent of a bullet item: 0.25
BulletIndent == 180
\* placeholder of a chart or visualization: height 0.5, advance 0.6
PlaceholderHeight == 360
PlaceholderAdvance == 432

\* (fontSize / 72) * 1.5 * runs, in units of 1/720 inch
textHeight(fontSize, runs) == fontSize * 15 * runs

\* node.type.startsWith('h'), for the types addTextElement is called with
startsWithH(type) == type \in {"h1", "h2", "h3", "h4", "h5", "h6"}

\* textBox adding one text box for each run instead of one for the node
textBox_PerRun(node, area, y, richText, style) ==
    Result(y + textHeight(style.fontSize, Len(richText)) + TextGap,
           [i \in 1..Len(richText) |->
               TextCmd(area.x, y, area.w, textHeight(style.fontSize, 1),
                       <<richText[i]>>, "", style)],
           TRUE, {})

\* lines 419-442, with richText and style computed
textBox(node, area, y, richText, style) ==
    IF \A i \in 1..Len(richText) : ~truthy(trim(richText[i].text))
    THEN Result(y, <<>>, TRUE, {})
    ELSE Result(y + textHeight(style.fontSize, Len(richText)) + TextGap,
                <<TextCmd(IF node.type = "bullet" THEN area.x + BulletIndent ELSE area.x,
                          y,
                          IF node.type = "bullet" THEN area.w - BulletIndent ELSE area.w,
                          textHeight(style.fontSize, Len(richText)),
                          richText, "",
                          IF startsWithH(node.type) THEN [style EXCEPT !.align = "center"]
                          ELSE style)>>,
                TRUE, {})

\* addTextElement advancing the cursor by the gap alone, not by the height
addTextElement_GapOnly(node, th, area, y) ==
    LET r == textBox(node, area, y, getRichTextFromNode(node), getTextNodeStyle(node, th))
    IN  [r EXCEPT !.y = IF r.cmds = <<>> THEN y ELSE y + TextGap]

addTextElement(node, th, area, y) ==
    textBox(node, area, y, getRichTextFromNode(node), getTextNodeStyle(node, th))

\* addImageElement skipping an image node that has no text of its own
addImageElement_NeedsText(node, area, y) ==
    IF truthy(node.url) /\ \E i \in 1..Len(node.children) : truthy(trim(node.children[i].text))
    THEN Result(y + ImageHeight + ImageGap,
                <<ImageCmd(area.x, y, area.w, ImageHeight, node.url, "contain")>>,
                TRUE, {})
    ELSE Result(y, <<>>, TRUE, {})

addImageElement(node, area, y) ==
    IF truthy(node.url)
    THEN IF addImageThrows(node.url)
         THEN Result(y, <<>>, FALSE, {})
         ELSE Result(y + ImageHeight + ImageGap,
                     <<ImageCmd(area.x, y, area.w, ImageHeight, node.url, "contain")>>,
                     TRUE, {})
    ELSE Result(y, <<>>, TRUE, {})

\* placeholder dropping the node: nothing appended, the cursor unchanged
placeholder_Dropped(node, area, y, label) == Result(y, <<>>, TRUE, {})

placeholder(node, area, y, label) ==
    Result(y + PlaceholderAdvance,
           <<TextCmd(area.x, y, area.w, PlaceholderHeight, <<>>, label, NoStyle)>>,
           TRUE, {})

RECURSIVE processNode(_, _, _, _)

\* thenNode putting the commands of the node before those of the earlier nodes
thenNode_Prepend(before, r) ==
    [y |-> r.y, cmds |-> r.cmds \o before.cmds, ok |-> r.ok,
     calls |-> before.calls \cup r.calls,
     placed |-> IF r.ok THEN before.placed + 1 ELSE before.placed]

\* the loop state after one more node: the cursor is the node's result, the
\* commands and calls accumulate; a throw ends the loop
thenNode(before, r) ==
    [y |-> r.y, cmds |-> before.cmds \o r.cmds, ok |-> r.ok,
     calls |-> before.calls \cup r.calls,
     placed |-> IF r.ok THEN before.placed + 1 ELSE before.placed]

nextNode(before, node, th, area) ==
    IF before.ok THEN thenNode(before, processNode(node, th, area, before.y)) ELSE before

\* nodes.forEach(n => { y = processNode(n, ..., y) }): the cursor is threaded
\* through the nodes. after[k] is the state of the loop after k nodes;
\* placed counts the nodes whose processNode call returned.
layoutNodes(nodes, th, area, y) ==
    LET after[k \in 0..Len(nodes)] ==
            IF k = 0 THEN Result(y, <<>>, TRUE, {})
            ELSE nextNode(after[k - 1], nodes[k], th, area)
    IN  after[Len(nodes)]

\* the area of column number index (0-based)
columnArea(area, index, colW) ==
    [area EXCEPT !.x = area.x + index * (colW + ColumnGap), !.w = colW]

\* thenColumn keeping the cursor of the last column instead of the largest
thenColumn_Last(before, col) ==
    [y |-> col.y, cmds |-> before.cmds \o col.cmds, ok |-> col.ok,
     calls |-> before.calls \cup col.calls, placed |-> 0]

\* maxColY = Math.max(maxColY, currentYinCol)
thenColumn(before, col) ==
    [y |-> Max2(before.y, col.y), cmds |-> before.cmds \o col.cmds, ok |-> col.ok,
     calls |-> before.calls \cup col.calls, placed |-> 0]

nextColumn(before, column, index, colW, th, area, y) ==
    IF before.ok
    THEN thenColumn(before, layoutNodes(column.children, th, columnArea(area, index, colW), y))
    ELSE before

\* columns.forEach((col, index) => ...): every column starts at y.
\* after[k] is the state of the loop after k columns, its y being maxColY.
layoutColumns(columns, colW, th, area, y) ==
    LET after[k \in 0..Len(columns)] ==
            IF k = 0 THEN Result(y, <<>>, TRUE, {})
            ELSE nextColumn(after[k - 1], columns[k], k - 1, colW, th, area, y)
    IN  after[Len(columns)]

\* return maxColY + 0.2
closeColumns(r) == IF r.ok THEN [r EXCEPT !.y = r.y + ColumnGap] ELSE r

columnWidth(area, n) == (area.w - (n - 1) * ColumnGap) \div n

columnsOf(columns, th, area, y) ==
    IF Len(columns) = 0 THEN Result(y, <<>>, TRUE, {})
    ELSE closeColumns(layoutColumns(columns, columnWidth(area, Len(columns)), th, area, y))

addColumnsElement(node, th, area, y) ==
    columnsOf(SelectSeq(node.children, LAMBDA c : c.type = "column_item"), th, area, y)

addBulletsElement(node, th, area, y) == layoutNodes(node.children, th, area, y)

dispatch(node, th, area, y) ==
    CASE node.type \in {"h1", "h2", "h3", "h4", "h5", "h6", "p"} ->
            addTextElement(node, th, area, y)
      [] node.type = "img" -> addImageElement(node, area, y)
      [] node.type = "column" -> addColumnsElement(node, th, area, y)
      [] node.type = "bullets" -> addBulletsElement(node, th, area, y)
      [] node.type = "bullet" -> addTextElement(node, th, area, y)
      [] node.type = "chart" -> placeholder(node, area, y, "[Chart]")
      [] node.type = "visualization-list" -> placeholder(node, area, y, "[Visualization]")
      [] OTHER -> Result(y, <<>>, TRUE, {})

\* the result of a call, with the call recorded
recorded(node, area, y, r) ==
    [r EXCEPT !.calls = r.calls \cup {Call(node, area, y, r)}, !.placed = 0]

processNode(node, th, area, y) == recorded(node, area, y, dispatch(node, th, area, y))

----------------------------------------------------------------------------
(* Slide composer *)

\* a slide of the stored presentation; "" / <<>> stand for an absent field
Slide(content, rootUrl, layoutType, bgColor) ==
    [content |-> content, rootUrl |-> rootUrl, layoutType |-> layoutType,
     bgColor |-> bgColor]

DefaultArea == Area(Inch(5, 10), Inch(5, 10), Inch(9, 1), Inch(4625, 1000))

\* the image box of the root image for a layout type
rootImageBox(layoutType) ==
    CASE layoutType = "left" -> Area(0, 0, PctW(50), PctH(100))
      [] layoutType = "right" -> Area(PctW(50), 0, PctW(50), PctH(100))
      [] layoutType = "vertical" -> Area(0, 0, PctW(100), PctH(40))
      [] OTHER -> Area(0, 0, PctW(100), PctH(100))

\* the content area the switch assigns after the image was added
layoutArea(layoutType) ==
    CASE layoutType = "left" -> Area(Inch(525, 100), Inch(5, 10), Inch(45, 10), Inch(4625, 1000))
      [] layoutType = "right" -> Area(Inch(25, 100), Inch(5, 10), Inch(45, 10), Inch(4625, 1000))
      [] layoutType = "vertical" -> Area(Inch(5, 10), Inch(235, 100), Inch(9, 1), Inch(2775, 1000))
      [] OTHER -> DefaultArea

\* the try/catch around the root image: the commands it appends and the
\* content area it leaves
rootImage(slideData) ==
    IF ~truthy(slideData.rootUrl)
    THEN [cmds |-> <<>>, area |-> DefaultArea, failed |-> FALSE]
    ELSE IF addImageThrows(slideData.rootUrl)
    THEN [cmds |-> <<[TextCmd(0, 0, PctW(50), PctH(100), <<>>, "[Image not found]", NoStyle)
                        EXCEPT !.path = slideData.rootUrl]>>,
          area |-> DefaultArea, failed |-> TRUE]
    ELSE LET box == rootImageBox(slideData.layoutType)
             image == ImageCmd(box.x, box.y, box.w, box.h, slideData.rootUrl, "")
         IN  [cmds |-> IF slideData.layoutType \in {"left", "right", "vertical"}
                       THEN <<image>>
                       ELSE <<image, ShapeCmd(0, 0, PctW(100), PctH(100))>>,
              area |-> layoutArea(slideData.layoutType), failed |-> FALSE]

\* what composing a slide did: the commands appended, whether it returned
\* (ok), the content area used, the number of top-level nodes whose
\* processNode call returned, the calls made and the final cursor
composed(root, body) ==
    [cmds |-> root.cmds \o body.cmds, ok |-> body.ok, area |-> root.area,
     placed |-> body.placed, rootFailed |-> root.failed, calls |-> body.calls,
     last |-> body.y]

contentOf(slideData, th, root) ==
    composed(root, layoutNodes(slideData.content, th, root.area, root.area.y))

addSlideContent(slideData, th) == contentOf(slideData, th, rootImage(slideData))

----------------------------------------------------------------------------
(* The export handler POST (route.ts 607-674) *)

\* a request: whether the body carries an id, whether the document store
\* finds the presentation, and the stored presentation
Request(hasId, found, themeRef, hasSlides, slides, title) ==
    [hasId |-> hasId, found |-> found, theme |-> themeRef, hasSlides |-> hasSlides,
     slides |-> slides, title |-> title]

NoResponse == [status |-> 0, error |-> "", hasArtifact |-> FALSE, artifact |-> <<>>, fileName |-> <<>>]
Failure(status, error) ==
    [status |-> status, error |-> error, hasArtifact |-> FALSE, artifact |-> <<>>, fileName |-> <<>>]
Success(artifact, fileName) ==
    [status |-> 200, error |-> "", hasArtifact |-> TRUE, artifact |-> artifact, fileName |-> fileName]

\* a slide of the deck: its background, its commands, and what composing it did
DeckSlide(background, c) ==
    [background |-> background, cmds |-> c.cmds, complete |-> c.ok, placed |-> c.placed,
     area |-> c.area, rootFailed |-> c.rootFailed, calls |-> c.calls, last |-> c.last]
EmptySlide ==
    [background |-> <<>>, cmds |-> <<>>, complete |-> FALSE, placed |-> 0,
     area |-> DefaultArea, rootFailed |-> FALSE, calls |-> {}, last |-> 0]

DefaultTheme(registry) == Theme("daktilo", registry["daktilo"], "daktilo")

\* `${title || "presentation"}.pptx`
fileNameOf(title) ==
    (IF truthy(title) THEN title ELSE <<"p", "r", "e", "s", "e", "n", "t", "a", "t", "i", "o", "n">>)
        \o <<".", "p", "p", "t", "x">>

\* `attachment; filename="${fileName}"`
contentDisposition(fileName) ==
    <<"a", "t", "t", "a", "c", "h", "m", "e", "n", "t", ";", " ",
      "f", "i", "l", "e", "n", "a", "m", "e", "=", "\"">> \o fileName \o <<"\"">>

\* new NextResponse(body, {headers}): the Headers of the runtime reject a
\* value that holds a line break, with a TypeError
headerThrows(value) == \E i \in 1..Len(value) : value[i] \in {"\n", "\r"}

\* lines 609-639: read the id, look the presentation up, resolve the theme
POST_Lookup ==
    /\ pc = "start"
    /\ IF ~req.hasId
       THEN /\ resp' = Failure(400, "Invalid or missing presentation ID")
            /\ pc' = "done"
            /\ UNCHANGED theme
       ELSE IF ~req.found
       THEN /\ resp' = Failure(404, "Presentation not found")
            /\ pc' = "done"
            /\ UNCHANGED theme
       ELSE LET t == resolveTheme(req.theme, themes)
            IN  /\ theme' = IF t.isNull THEN DefaultTheme(themes) ELSE t
                /\ IF req.hasSlides
                   THEN pc' = "slides" /\ UNCHANGED resp
                   ELSE pc' = "done" /\ resp' = Failure(500, "Internal server error")
    /\ UNCHANGED <<themes, req, idx, deck, exports>>

\* slide.background = { color: finalBgColor.replace("#", "") }
backgroundOf(slideData, th) ==
    stripHash(IF truthy(slideData.bgColor) THEN slideData.bgColor
              ELSE th.properties.light.background)

\* SlideDone with the throw swallowed: the loop goes on to the next slide
SlideDone_Swallow(background, c) ==
    /\ deck' = Append(deck, DeckSlide(background, c))
    /\ idx' = idx + 1
    /\ UNCHANGED <<pc, resp>>

\* the handler after addSlideContent: the loop goes on, or the throw ends
\* the handler in its catch (lines 665-673)
SlideDone(background, c) ==
    /\ deck' = Append(deck, DeckSlide(background, c))
    /\ IF c.ok
       THEN idx' = idx + 1 /\ UNCHANGED <<pc, resp>>
       ELSE /\ resp' = Failure(500, "Internal server error")
            /\ pc' = "done"
            /\ UNCHANGED idx

\* lines 641-652: one iteration of the loop over the slides
POST_Slide ==
    /\ pc = "slides"
    /\ idx <= Len(req.slides)
    /\ IF theme.properties.shape # "full"
       THEN /\ deck' = Append(deck, EmptySlide)
            /\ resp' = Failure(500, "Internal server error")
            /\ pc' = "done"
            /\ UNCHANGED idx
       ELSE SlideDone(backgroundOf(req.slides[idx], theme),
                      addSlideContent(req.slides[idx], theme))
    /\ UNCHANGED <<themes, req, theme, exports>>

\* lines 654-664: write the deck and answer; a failed fetch of an image
\* rejects pptx.write and ends the handler in its catch
POST_Write ==
    /\ pc = "slides"
    /\ idx > Len(req.slides)
    /\ IF \E i \in 1..Len(deck) : \E k \in 1..Len(deck[i].cmds) :
              deck[i].cmds[k].kind = "image" /\ fetchFails(deck[i].cmds[k].path)
       THEN resp' = Failure(500, "Internal server error")
       ELSE IF headerThrows(contentDisposition(fileNameOf(req.title)))
       THEN resp' = Failure(500, "Internal server error")
       ELSE resp' = Success(deck, fileNameOf(req.title))
    /\ pc' = "done"
    /\ UNCHANGED <<themes, req, idx, theme, deck, exports>>

----------------------------------------------------------------------------
(* The inputs the model draws from *)

tA == <<"a">>
tB == <<"b">>
tBlank == <<" ">>
tEmpty == <<>>

Text(ty, t) == Elem(ty, {}, <<Leaf(t, {})>>)
pA == Text("p", tA)
pBlank == Text("p", tBlank)
pEmpty == Text("p", tEmpty)
\* a paragraph of two non-blank leaves, the second bold
pAB == Elem("p", {}, <<Leaf(tA, {}), Leaf(tB, {"bold"})>>)
\* a paragraph of a non-blank leaf and a whitespace leaf
pASpace == Elem("p", {}, <<Leaf(tA, {}), Leaf(tBlank, {})>>)
\* a paragraph with an italic inline element that holds a bold leaf and a
\* plain leaf, followed by a struck-through leaf
pNested ==
    Elem("p", {}, <<Elem("a", {"italic"}, <<Leaf(tA, {"bold"}), Leaf(tB, {})>>),
                    Leaf(tB, {"strikethrough"})>>)
h1A == Text("h1", tA)
h2Blank == Text("h2", tBlank)
h6A == Text("h6", tA)
bulletA == Text("bullet", tA)
bulletBlank == Text("bullet", tBlank)
\* an image node has one empty text child
imgOk == Img(UrlOk, <<Leaf(tEmpty, {})>>)
imgCaption == Img(UrlOk, <<Leaf(tA, {})>>)
imgNoUrl == Img("", <<Leaf(tEmpty, {})>>)
imgInvalid == Img(UrlInvalid, <<Leaf(tEmpty, {})>>)
imgDead == Img(UrlDead, <<Leaf(tEmpty, {})>>)
chartNode == Text("chart", tEmpty)
vizNode == Text("visualization-list", tEmpty)
quoteA == Text("blockquote", tA)
bareLeaf == Leaf(tA, {})

Item(kids) == Elem("column_item", {}, kids)
Column(kids) == Elem("column", {}, kids)
Bullets(kids) == Elem("bullets", {}, kids)

Atoms ==
    {pA, pBlank, pEmpty, pAB, pASpace, pNested, h1A, h2Blank, h6A, bulletA, bulletBlank,
     imgOk, imgCaption, imgNoUrl, imgInvalid, imgDead, chartNode, vizNode, quoteA, bareLeaf}

ItemSet == {Item(k) : k \in SeqsUpTo({pBlank, h1A}, MaxKids)}
ColumnSet == {Column(k) : k \in SeqsUpTo(ItemSet, MaxKids)}
BulletsSet == {Bullets(k) : k \in SeqsUpTo({bulletA, bulletBlank, imgOk}, MaxKids)}

\* hand-built trees: images and lists inside columns, a nested column,
\* children of a column that are no column items, a throwing image inside
Specials ==
    {Column(<<Item(<<imgOk, pA>>), Item(<<pA>>)>>),
     Column(<<Item(<<imgNoUrl>>), Item(<<pBlank>>)>>),
     Column(<<pA, Item(<<pA>>)>>),
     Column(<<pA>>),
     Column(<<Item(<<Column(<<Item(<<pA>>), Item(<<pBlank>>)>>)>>), Item(<<h1A>>)>>),
     Column(<<Item(<<Bullets(<<bulletA, bulletBlank>>)>>), Item(<<pBlank>>)>>),
     Column(<<Item(<<Bullets(<<bulletBlank>>)>>), Item(<<pEmpty>>)>>),
     Column(<<Item(<<imgInvalid>>), Item(<<pA>>)>>),
     Column(<<Item(<<pAB, chartNode>>), Item(<<pA>>)>>),
     Bullets(<<pA, bulletA>>),
     Bullets(<<Bullets(<<bulletBlank>>), pEmpty>>),
     Bullets(<<Column(<<Item(<<imgOk>>)>>), bulletA>>),
     Column(<<Item(<<pA>>), Item(<<Bullets(<<bulletA, imgOk>>)>>)>>),
     Column(<<Item(<<quoteA, chartNode>>), Item(<<pA, vizNode>>)>>)}

TopNodes == Atoms \cup ColumnSet \cup BulletsSet \cup Specials

LayoutTypes == {"", "left", "right", "vertical"}

ContentSlides ==
    {Slide(<<n>>, "", "", <<>>) : n \in TopNodes}
    \cup {Slide(<<a, pA>>, "", "", <<>>) : a \in {imgOk, imgNoUrl, imgInvalid, imgDead, h1A, pBlank, chartNode}}
    \cup {Slide(<<>>, "", "", <<>>)}
RootSlides ==
    {Slide(<<h1A, pA>>, u, l, <<>>) : u \in {UrlOk, UrlInvalid, UrlDead}, l \in LayoutTypes}
BgSlides == {Slide(<<pA>>, "", "", bg) : bg \in {Night, White}}
AllSlides == ContentSlides \cup RootSlides \cup BgSlides

\* the slides that decks of several slides are made of
MultiSlides ==
    {Slide(<<pA>>, "", "", <<>>), Slide(<<pA>>, "", "", Night),
     Slide(<<h1A, pA>>, UrlOk, "", <<>>), Slide(<<imgInvalid, pA>>, "", "", <<>>),
     Slide(<<h1A>>, UrlInvalid, "right", <<>>)}

Decks ==
    {<<s>> : s \in AllSlides}
    \cup {d \in SeqsUpTo(MultiSlides, MaxSlides) : Len(d) # 1}

ThemeRefs ==
    {RefUndefined, RefNull, RefNumber, RefName("daktilo"), RefName("noir"), RefName("nope"),
     RefInline(DarkProps), RefInline(EmptyObject), RefResolved("mine", LightProps),
     RefResolved("bad", EmptyObject)}

Title == <<"Q", "1">>
\* titles: absent or empty, plain, and with a double quote, a path
\* separator, a line break
Titles ==
    {<<>>, Title, <<"a", "\"", "b">>, <<"a", "/", "b">>, <<"a", "\n", "b">>, <<" ", "a">>}

Requests ==
    {Request(TRUE, TRUE, RefName("daktilo"), TRUE, d, Title) : d \in Decks}
    \cup {Request(TRUE, TRUE, t, TRUE, d, Title) :
            t \in ThemeRefs, d \in {<<Slide(<<h1A, pA>>, "", "", <<>>)>>,
                                    <<Slide(<<pA>>, UrlOk, "", <<>>), Slide(<<pA>>, "", "", <<>>)>>}}
    \cup {Request(TRUE, TRUE, RefName("daktilo"), TRUE, <<Slide(<<h1A, pA>>, "", "", <<>>)>>, t) :
            t \in Titles}
    \cup {Request(FALSE, FALSE, RefUndefined, FALSE, <<>>, <<>>),
          Request(TRUE, FALSE, RefUndefined, FALSE, <<>>, <<>>),
          Request(TRUE, TRUE, RefName("daktilo"), FALSE, <<>>, Title)}

----------------------------------------------------------------------------
(* Specification of the handler of route.ts 607-674 *)

Init ==
    /\ themes = themesInit
    /\ req \in Requests
    /\ pc = "start"
    /\ idx = 1
    /\ theme = NullTheme
    /\ deck = <<>>
    /\ resp = NoResponse
    /\ exports = 0

Next == POST_Lookup \/ POST_Slide \/ POST_Write

Spec == Init /\ [][Next]_vars

----------------------------------------------------------------------------
(* Properties of the layout engine, stated over the processNode calls the  *)
(* handler made (deck[i].calls) *)

AllCalls == UNION {deck[i].calls : i \in 1..Len(deck)}

TextTypes == {"h1", "h2", "h3", "h4", "h5", "h6", "p", "bullet"}

\* the area a call was made with (processNode reads only x and w of it)
CallArea(c) == Area(c.x, 0, c.w, 0)

ColumnItems(node) == SelectSeq(node.children, LAMBDA k : k.type = "column_item")

\* a text node, a bullet list, a multi-column container of column items, or
\* a nesting of these, whose leaves all carry empty or whitespace-only text
RECURSIVE blankTree(_)
blankTree(n) ==
    IF n.type = "" THEN trim(n.text) = <<>>
    ELSE /\ n.type \in TextTypes \cup {"bullets", "column", "column_item"}
         /\ \A i \in 1..Len(n.children) : blankTree(n.children[i])

TextBoxes(cmds) == SelectSeq(cmds, LAMBDA c : c.kind = "text")
ImageBoxes(cmds) == SelectSeq(cmds, LAMBDA c : c.kind = "image")

\* C1: a node whose leaves are all blank (a text node, a bullet list, a
\* multi-column container of column items, or a nesting of these) returns
\* the cursor it was given and appends no drawing command
C1_BlankTreeUnchanged ==
    \A c \in AllCalls :
        (c.ok /\ blankTree(c.node)) => (c.ret = c.y /\ c.cmds = <<>>)

\* the final cursor of each column item of a column node, each laid out on
\* its own from y
ColumnFinals(node, th, area, y) ==
    {layoutNodes(ColumnItems(node)[k].children, th, area, y).y : k \in 1..Len(ColumnItems(node))}

Perms(n) == {f \in [1..n -> 1..n] : \A i, j \in 1..n : f[i] = f[j] => i = j}
Permuted(node, f) ==
    [node EXCEPT !.children = [i \in 1..Len(node.children) |-> node.children[f[i]]]]

SameForEveryOrder(c) ==
    \A f \in Perms(Len(c.node.children)) :
        processNode(Permuted(c.node, f), theme, CallArea(c), c.y).y = c.ret

\* C2 as stated: for every multi-column node the cursor returned is the
\* largest final cursor of its columns (each laid out from y) plus 0.2, the
\* same for every order of the columns
C2_Original ==
    \A c \in AllCalls :
        (c.ok /\ c.node.type = "column") =>
            /\ c.ret = SetMax(ColumnFinals(c.node, theme, CallArea(c), c.y) \cup {c.y}) + ColumnGap
            /\ SameForEveryOrder(c)

\* C2 amended: that holds for every multi-column node with at least one
\* column item; a node with none returns the cursor it was given
C2_MaxPlusGap ==
    \A c \in AllCalls :
        (c.ok /\ c.node.type = "column") =>
            /\ SameForEveryOrder(c)
            /\ IF Len(ColumnItems(c.node)) = 0 THEN c.ret = c.y
               ELSE c.ret = SetMax(ColumnFinals(c.node, theme, CallArea(c), c.y)) + ColumnGap

\* a column block of two columns of different heights, the taller first
C2_Witness ==
    \E c \in AllCalls :
        /\ c.ok /\ c.node.type = "column" /\ Len(ColumnItems(c.node)) = 2
        /\ LET a == layoutNodes(ColumnItems(c.node)[1].children, theme, CallArea(c), c.y).y
               b == layoutNodes(ColumnItems(c.node)[2].children, theme, CallArea(c), c.y).y
           IN  a > b /\ b > c.y /\ c.ret = a + ColumnGap

\* C10: an image node with a url appends exactly one image box at the cursor,
\* with the x and width of the area, height 2 and contain scaling, and
\* returns y + 2 + 0.2; without a url it appends nothing and returns y --
\* whatever its children and wherever it sits
C10_ImageNode ==
    \A c \in AllCalls :
        (c.ok /\ c.node.type = "img") =>
            IF truthy(c.node.url)
            THEN /\ c.cmds = <<ImageCmd(c.x, c.y, c.w, Inch(2, 1), c.node.url, "contain")>>
                 /\ c.ret = c.y + Inch(2, 1) + Inch(2, 10)
            ELSE c.cmds = <<>> /\ c.ret = c.y

\* an image with an empty text child, inside a list inside the second
\* column of a column block, below a bullet
C10_Witness ==
    \E c, l \in AllCalls :
        /\ l.node.type = "bullets" /\ l.x = c.x
        /\ \E i \in 1..Len(l.node.children) : l.node.children[i] = c.node
        /\ c.node = imgOk /\ c.x # DefaultArea.x /\ c.w < DefaultArea.w /\ c.y > DefaultArea.y
        /\ c.ret = c.y + Inch(22, 10) /\ Len(c.cmds) = 1

----------------------------------------------------------------------------
(* Counting the boxes of a tree *)

SumOver(n, f(_)) ==
    LET acc[k \in 0..n] == IF k = 0 THEN 0 ELSE acc[k - 1] + f(k)
    IN  acc[n]

\* the leaves of the tree of n that carry non-blank text
RECURSIVE nonBlankLeaves(_)
nonBlankLeaves(n) ==
    IF n.type = "" THEN (IF truthy(trim(n.text)) THEN 1 ELSE 0)
    ELSE SumOver(Len(n.children), LAMBDA k : nonBlankLeaves(n.children[k]))

\* the text blocks (h1-h6, p, bullet) with a non-blank leaf, and the chart
\* and visualization nodes, that the layout of n reaches
RECURSIVE textBlocks(_)
textBlocks(n) ==
    CASE n.type \in TextTypes -> (IF nonBlankLeaves(n) > 0 THEN 1 ELSE 0)
      [] n.type \in {"chart", "visualization-list"} -> 1
      [] n.type = "bullets" -> SumOver(Len(n.children), LAMBDA k : textBlocks(n.children[k]))
      [] n.type = "column" ->
            SumOver(Len(ColumnItems(n)),
                    LAMBDA k : SumOver(Len(ColumnItems(n)[k].children),
                                       LAMBDA j : textBlocks(ColumnItems(n)[k].children[j])))
      [] OTHER -> 0

\* the image nodes with a url that the layout of n reaches
RECURSIVE imageNodes(_)
imageNodes(n) ==
    CASE n.type = "img" -> (IF truthy(n.url) THEN 1 ELSE 0)
      [] n.type = "bullets" -> SumOver(Len(n.children), LAMBDA k : imageNodes(n.children[k]))
      [] n.type = "column" ->
            SumOver(Len(ColumnItems(n)),
                    LAMBDA k : SumOver(Len(ColumnItems(n)[k].children),
                                       LAMBDA j : imageNodes(ColumnItems(n)[k].children[j])))
      [] OTHER -> 0

\* C8 as stated: the text boxes a tree produces are as many as its leaves
\* with non-blank text
C8_Original ==
    \A c \in AllCalls : c.ok => Len(TextBoxes(c.cmds)) = nonBlankLeaves(c.node)

\* C8 amended: the text boxes a tree produces are as many as the text blocks
\* (h1-h6, p, bullet) with a non-blank leaf that the layout reaches, one box
\* for each block whatever the number of its leaves, plus one placeholder
\* label for each chart or visualization node reached; a container (bullet
\* list, multi-column, column item) adds no command of its own. A layout
\* ended by the throw of an image has appended at most these boxes, and not
\* the box of that image
C8_OneBoxPerBlock ==
    \A c \in AllCalls :
        IF c.ok
        THEN /\ Len(TextBoxes(c.cmds)) = textBlocks(c.node)
             /\ Len(ImageBoxes(c.cmds)) = imageNodes(c.node)
             /\ Len(c.cmds) = textBlocks(c.node) + imageNodes(c.node)
        ELSE /\ Len(TextBoxes(c.cmds)) <= textBlocks(c.node)
             /\ Len(ImageBoxes(c.cmds)) < imageNodes(c.node)
             /\ Len(c.cmds) = Len(TextBoxes(c.cmds)) + Len(ImageBoxes(c.cmds))

\* a column block whose first column holds a paragraph of two non-blank
\* leaves, drawn as one text box of two runs, and a chart placeholder
C8_Witness ==
    \E c, d \in AllCalls :
        /\ c.ok /\ c.node.type = "column" /\ Len(TextBoxes(c.cmds)) = 3
        /\ \E i \in 1..Len(c.cmds) : c.cmds[i].label = "[Chart]"
        /\ d.node.type = "p" /\ d.x = c.x /\ d.y = c.y
        /\ nonBlankLeaves(d.node) = 2 /\ Len(d.cmds) = 1 /\ Len(d.cmds[1].runs) = 2

----------------------------------------------------------------------------
(* Properties of the slide composer and of the handler *)

Found == req.hasId /\ req.found
ImageFails(url) == truthy(url) /\ (addImageThrows(url) \/ fetchFails(url))
Placeholders(cmds) == SelectSeq(cmds, LAMBDA c : c.kind = "text" /\ c.label = "[Image not found]")

\* C4 as stated: when the root image of a slide cannot be placed, the slide
\* is still composed: one "image not found" placeholder in the region the
\* image has for the slide's layoutType, and every top-level node laid out in
\* the content region of that layoutType
C4_Claim ==
    \A i \in 1..Len(deck) :
        ImageFails(req.slides[i].rootUrl) =>
            /\ deck[i].complete
            /\ deck[i].placed = Len(req.slides[i].content)
            /\ deck[i].area = layoutArea(req.slides[i].layoutType)
            /\ Len(Placeholders(deck[i].cmds)) = 1
            /\ LET ph == Placeholders(deck[i].cmds)[1]
                   box == rootImageBox(req.slides[i].layoutType)
               IN  Area(ph.x, ph.y, ph.w, ph.h) = box

\* C5 as stated: when an inline image of a slide cannot be placed, an
\* "[Image not found]" placeholder is put in its region, the export is not
\* aborted, and what follows is placed below the placeholder
C5_Claim ==
    (pc = "done" /\ Found /\ req.hasSlides) =>
        \A i \in 1..Len(req.slides) : \A k \in 1..Len(req.slides[i].content) :
            LET node == req.slides[i].content[k]
            IN  (node.type = "img" /\ ImageFails(node.url)) =>
                    /\ resp.status = 200
                    /\ i <= Len(deck)
                    /\ \E j \in 1..Len(deck[i].cmds) :
                          /\ deck[i].cmds[j].kind = "text"
                          /\ deck[i].cmds[j].label = "[Image not found]"
                          /\ \A m \in (j + 1)..Len(deck[i].cmds) :
                                deck[i].cmds[m].y >= deck[i].cmds[j].y + deck[i].cmds[j].h

\* C7: the handler ends with a success response carrying a deck in which
\* every slide of the input was composed to its last top-level node, or with
\* a failure response carrying no artifact; before it ends there is no
\* response
C7_CompleteOrFailure ==
    IF pc = "done"
    THEN \/ /\ resp.status = 200 /\ resp.hasArtifact
            /\ resp.artifact = deck
            /\ Len(deck) = Len(req.slides)
            /\ \A i \in 1..Len(deck) :
                  deck[i].complete /\ deck[i].placed = Len(req.slides[i].content)
         \/ /\ resp.status \in {400, 404, 500} /\ ~resp.hasArtifact
            /\ resp.artifact = <<>>
    ELSE resp = NoResponse

\* an export of two slides ended by a throw in the first: a failure, no
\* artifact, the slide left unfinished in the discarded deck
C7_Witness ==
    /\ pc = "done" /\ resp.status = 500 /\ ~resp.hasArtifact
    /\ Len(req.slides) = 2 /\ Len(deck) = 1
    /\ ~deck[1].complete /\ deck[1].placed < Len(req.slides[1].content)

\* a reference that names no registered theme and carries no palette
Unresolvable(ref) ==
    \/ ref.kind \in {"undefined", "null", "number"}
    \/ ref.kind = "string" /\ ref.name \notin ThemeNames
    \/ /\ ref.kind = "object"
       /\ IF ref.hasName /\ ref.hasProperties THEN ref.inner.shape # "full"
          ELSE ref.props.shape # "full"

\* C9 as stated: resolveTheme returns null exactly for the absent and the
\* invalid references (an object without palette and fonts included), and
\* the export then uses the default theme and is not aborted
C9_Claim ==
    (pc # "start" /\ Found) =>
        /\ resolveTheme(req.theme, themes).isNull <=> Unresolvable(req.theme)
        /\ Unresolvable(req.theme) => theme = DefaultTheme(themes)
        /\ (pc = "done" /\ Unresolvable(req.theme) /\ req.hasSlides
              /\ \A i \in 1..Len(req.slides) : req.slides[i].rootUrl \in {"", UrlOk})
             => resp.status = 200

\* the characters of a safe file name: letters, digits, "-", "_", "." and
\* the space
SafeChars ==
    {"a", "b", "c", "d", "e", "f", "g", "h", "i", "j", "k", "l", "m", "n", "o", "p", "q",
     "r", "s", "t", "u", "v", "w", "x", "y", "z", "A", "B", "C", "D", "E", "F", "G", "H",
     "I", "J", "K", "L", "M", "N", "O", "P", "Q", "R", "S", "T", "U", "V", "W", "X", "Y",
     "Z", "0", "1", "2", "3", "4", "5", "6", "7", "8", "9", "-", "_", ".", " "}
Extension == <<".", "p", "p", "t", "x">>
EndsWithExtension(name) ==
    Len(name) >= Len(Extension)
    /\ SubSeq(name, Len(name) - Len(Extension) + 1, Len(name)) = Extension

\* C11: the file name of a success response is made of safe file name
\* characters only and ends with .pptx, whatever the title: no double
\* quote, path separator or line break of the title reaches the header
C11_SafeFileName ==
    (pc = "done" /\ resp.status = 200) =>
        /\ EndsWithExtension(resp.fileName)
        /\ \A i \in 1..Len(resp.fileName) : resp.fileName[i] \in SafeChars

\* C12: on a slide with layoutType "vertical" and a root image url, the
\* content region the top-level nodes are laid out in begins strictly below
\* the image band (the top 40% of the canvas height), and so does every
\* command of the content
C12_BelowBand ==
    \A i \in 1..Len(deck) :
        (req.slides[i].layoutType = "vertical" /\ truthy(req.slides[i].rootUrl)) =>
            /\ deck[i].area.y > rootImageBox("vertical").y + rootImageBox("vertical").h
            /\ \A c \in deck[i].calls :
                  \A k \in 1..Len(c.cmds) :
                     c.cmds[k].y > rootImageBox("vertical").y + rootImageBox("vertical").h

----------------------------------------------------------------------------
(* The handler that takes the slides in the request body                   *)
(* (route.ts 1-270): POST, resolveTheme, addSlideContent, addCustomLayout, *)
(* addDefaultLayout, parseElements. Its definitions carry the prefix Sec_. *)

\* the theme properties this handler reads: a background colour and one
\* text style for each element type; shape = "empty" is an object that has
\* none of them
Sec_Style(color, fontSize, bold) ==
    [color |-> color, fontFace |-> "", fontSize |-> fontSize, bold |-> bold,
     align |-> "", bullet |-> FALSE]
Sec_Properties(bg, ink) ==
    [shape |-> "full", backgroundColor |-> bg, title |-> Sec_Style(ink, 36, TRUE),
     subtitle |-> Sec_Style(ink, 24, FALSE), text |-> Sec_Style(ink, 16, FALSE),
     bullet |-> Sec_Style(ink, 16, FALSE)]
Sec_EmptyObject ==
    [shape |-> "empty", backgroundColor |-> <<>>, title |-> NoStyle, subtitle |-> NoStyle,
     text |-> NoStyle, bullet |-> NoStyle]

\* the registry this handler imports: themes[name].properties
Sec_ThemeNames == {"Default", "noir"}
Sec_themes ==
    [n \in Sec_ThemeNames |->
        [properties |-> IF n = "Default" THEN Sec_Properties(White, Ink)
                        ELSE Sec_Properties(Night, Mist)]]

Sec_resolveTheme(themeData) ==
    IF themeData.kind = "object"
    THEN IF themeData.hasProperties /\ themeData.hasName
         THEN Theme(themeData.name, themeData.inner, "")
         ELSE Theme("Custom", themeData.props, "")
    ELSE IF themeData.kind = "string" /\ themeData.name \in DOMAIN Sec_themes
         THEN Theme(themeData.name, Sec_themes[themeData.name].properties, themeData.name)
         ELSE [NullTheme EXCEPT !.properties = Sec_EmptyObject]

Sec_DefaultTheme == Theme("Default", Sec_themes["Default"].properties, "Default")

\* a slide element: its type, its text, and the path of an image element
Sec_Element(type, content, imagePath) ==
    [type |-> type, content |-> content, imagePath |-> imagePath]

\* block.children.map(c => c.text).join(""): the texts of the children of
\* the block itself, one after the other
Sec_joinText(children) ==
    LET acc[k \in 0..Len(children)] ==
            IF k = 0 THEN <<>> ELSE acc[k - 1] \o children[k].text
    IN  acc[Len(children)]

Sec_elementType(blockType) ==
    CASE blockType = "h1" -> "title"
      [] blockType = "h2" -> "subtitle"
      [] blockType = "h3" -> "headline"
      [] blockType = "p" -> "description"
      [] blockType = "bullet" -> "bullet"
      [] OTHER -> ""

\* parseElements: one element for each h1, h2, h3, p and bullet block
Sec_parseElements(content) ==
    LET acc[k \in 0..Len(content)] ==
            IF k = 0 THEN <<>>
            ELSE IF Sec_elementType(content[k].type) = "" THEN acc[k - 1]
            ELSE Append(acc[k - 1],
                        Sec_Element(Sec_elementType(content[k].type),
                                    Sec_joinText(content[k].children), ""))
    IN  acc[Len(content)]

\* a text command of this handler: its options are those of the theme's
\* style, which replace the default box (x 0.5, w 90%, h 0.5) altogether
Sec_TextCmd(content, style) ==
    TextCmd(0, 0, 0, 0, <<[text |-> content, options |-> {}]>>, "", style)

Sec_defaultStyle(element, properties) ==
    CASE element.type = "title" -> properties.title
      [] element.type = "subtitle" -> properties.subtitle
      [] element.type = "headline" -> [properties.text EXCEPT !.fontSize = 24, !.bold = TRUE]
      [] element.type = "description" -> properties.text
      [] element.type = "bullet" -> [properties.bullet EXCEPT !.bullet = TRUE]
      [] OTHER -> [NoStyle EXCEPT !.color = properties.text.color]

\* the commands of one element in addDefaultLayout
Sec_defaultElement(element, properties) ==
    IF element.type = "image"
    THEN (IF truthy(element.imagePath)
          THEN <<ImageCmd(PctW(25), PctH(25), PctW(50), PctH(50), element.imagePath, "")>>
          ELSE <<>>)
    ELSE <<Sec_TextCmd(element.content, Sec_defaultStyle(element, properties))>>

\* elements.forEach of addDefaultLayout
Sec_defaultCmds(elements, properties) ==
    LET acc[k \in 0..Len(elements)] ==
            IF k = 0 THEN <<>> ELSE acc[k - 1] \o Sec_defaultElement(elements[k], properties)
    IN  acc[Len(elements)]

\* addDefaultLayout: the elements, then the root image at 70%, 20%. Reading
\* theme.properties.text.color throws when the theme has no text style and
\* there is an element to draw.
Sec_addDefaultLayout(elements, th, section) ==
    IF Len(elements) > 0 /\ th.properties.shape # "full"
    THEN [cmds |-> <<>>, ok |-> FALSE]
    ELSE [cmds |-> Sec_defaultCmds(elements, th.properties)
                   \o (IF truthy(section.rootUrl)
                       THEN <<ImageCmd(PctW(70), PctH(20), PctW(25), PctH(60), section.rootUrl, "")>>
                       ELSE <<>>),
          ok |-> TRUE]

Sec_customStyle(element, properties) ==
    CASE element.type = "title" -> properties.title
      [] element.type = "subtitle" -> properties.subtitle
      [] element.type = "bullet" -> properties.bullet
      [] OTHER -> properties.text

\* the commands of one element in addCustomLayout (the layout of the model
\* styles no element type)
Sec_customElement(element, properties) ==
    IF element.type = "image" /\ truthy(element.imagePath)
    THEN <<ImageCmd(0, 0, 0, 0, element.imagePath, "")>>
    ELSE <<Sec_TextCmd(element.content, Sec_customStyle(element, properties))>>

\* elements.forEach of addCustomLayout
Sec_customCmds(elements, properties) ==
    LET acc[k \in 0..Len(elements)] ==
            IF k = 0 THEN <<>> ELSE acc[k - 1] \o Sec_customElement(elements[k], properties)
    IN  acc[Len(elements)]

Sec_addCustomLayout(elements, th) ==
    [cmds |-> Sec_customCmds(elements, th.properties), ok |-> TRUE]

\* a section of the request; isObject = FALSE is a null entry of the array,
\* hasContent / hasElements / hasLayout tell which keys it owns
Sec_Section(isObject, hasContent, content, hasElements, elements, layoutType, hasLayout, rootUrl) ==
    [isObject |-> isObject, hasContent |-> hasContent, content |-> content,
     hasElements |-> hasElements, elements |-> elements, layoutType |-> layoutType,
     hasLayout |-> hasLayout, rootUrl |-> rootUrl]

Sec_layout(section, elements, th) ==
    IF section.layoutType = "custom" /\ section.hasLayout
    THEN Sec_addCustomLayout(elements, th)
    ELSE Sec_addDefaultLayout(elements, th, section)

\* addSlideContent: section.elements ?? parseElements(section.content); it
\* throws on a null section and on one with neither elements nor content
Sec_addSlideContent(section, th) ==
    IF ~section.isObject \/ (~section.hasElements /\ ~section.hasContent)
    THEN [cmds |-> <<>>, ok |-> FALSE]
    ELSE Sec_layout(section,
                    IF section.hasElements THEN section.elements
                    ELSE Sec_parseElements(section.content),
                    th)

\* a slide of the deck of this handler
Sec_DeckSlide(background, c) ==
    [background |-> background, cmds |-> c.cmds, complete |-> c.ok, placed |-> 0,
     area |-> DefaultArea, rootFailed |-> FALSE, calls |-> {}, last |-> 0]

\* the request: whether the body parses to an object, the JavaScript type of
\* its sections key, the sections when that is an array, and its theme key
Sec_Request(bodyOk, sectionsKind, sections, themeRef) ==
    [bodyOk |-> bodyOk, sectionsKind |-> sectionsKind, slides |-> sections, theme |-> themeRef]

Sec_invalidSections_NoEmpty(r) == r.sectionsKind # "array"

\* !sections || !Array.isArray(sections) || sections.length === 0
Sec_invalidSections(r) == r.sectionsKind # "array" \/ Len(r.slides) = 0

\* lines 84-98: read the body and validate the sections
Sec_POST_Validate ==
    /\ pc = "start"
    /\ IF ~req.bodyOk
       THEN resp' = Failure(500, "Internal server error") /\ pc' = "done"
       ELSE IF Sec_invalidSections(req)
       THEN resp' = Failure(400, "Invalid or missing sections data") /\ pc' = "done"
       ELSE pc' = "slides" /\ UNCHANGED resp
    /\ UNCHANGED <<themes, req, idx, theme, deck, exports>>

Sec_SlideDone(c) ==
    /\ deck' = Append(deck, Sec_DeckSlide(theme'.properties.backgroundColor, c))
    /\ IF c.ok
       THEN idx' = idx + 1 /\ UNCHANGED <<pc, resp>>
       ELSE /\ resp' = Failure(500, "Internal server error")
            /\ pc' = "done"
            /\ UNCHANGED idx

\* resolveTheme(themeData) ?? defaultTheme
Sec_themeOr(t) == IF t.isNull THEN Sec_DefaultTheme ELSE t

\* lines 100-105: one iteration of the loop over the sections
Sec_POST_Slide ==
    /\ pc = "slides"
    /\ idx <= Len(req.slides)
    /\ theme' = Sec_themeOr(Sec_resolveTheme(req.theme))
    /\ Sec_SlideDone(Sec_addSlideContent(req.slides[idx], theme'))
    /\ UNCHANGED <<themes, req, exports>>

\* lines 107-117: write the deck and answer
Sec_POST_Write ==
    /\ pc = "slides"
    /\ idx > Len(req.slides)
    /\ IF \E i \in 1..Len(deck) : \E k \in 1..Len(deck[i].cmds) :
              deck[i].cmds[k].kind = "image" /\ fetchFails(deck[i].cmds[k].path)
       THEN resp' = Failure(500, "Internal server error")
       ELSE resp' = Success(deck, fileNameOf(<<>>))
    /\ pc' = "done"
    /\ UNCHANGED <<themes, req, idx, theme, deck, exports>>

\* the sections the model draws from
Sec_Plain(content, rootUrl) == Sec_Section(TRUE, TRUE, content, FALSE, <<>>, "", FALSE, rootUrl)

Sec_Sections ==
    {Sec_Plain(<<n>>, "") : n \in Atoms \cup {Text("h2", tA), Text("h3", tA)}}
    \cup {Sec_Plain(c, u) : c \in {<<>>, <<h1A, pA>>, <<h1A, imgOk, bulletA>>},
                             u \in {"", UrlOk, UrlDead}}
    \cup {Sec_Section(FALSE, FALSE, <<>>, FALSE, <<>>, "", FALSE, ""),
          Sec_Section(TRUE, FALSE, <<>>, FALSE, <<>>, "", FALSE, ""),
          Sec_Section(TRUE, TRUE, <<pA>>, TRUE,
                      <<Sec_Element("title", tA, ""), Sec_Element("image", <<>>, UrlOk)>>,
                      "custom", TRUE, ""),
          Sec_Section(TRUE, FALSE, <<>>, TRUE,
                      <<Sec_Element("image", <<>>, UrlOk), Sec_Element("image", <<>>, ""),
                        Sec_Element("bullet", tB, "")>>,
                      "left", FALSE, "")}

Sec_MultiSections ==
    {Sec_Plain(<<h1A, pA>>, ""), Sec_Plain(<<pA>>, UrlOk),
     Sec_Section(TRUE, FALSE, <<>>, FALSE, <<>>, "", FALSE, "")}

Sec_ThemeRefs ==
    {RefUndefined, RefNull, RefName("Default"), RefName("nope"),
     ThemeRef("object", "", FALSE, FALSE, Sec_Properties(Night, Mist), Sec_EmptyObject),
     ThemeRef("object", "", FALSE, FALSE, Sec_EmptyObject, Sec_EmptyObject)}

Sec_Requests ==
    {Sec_Request(TRUE, "array", <<x>>, RefName("Default")) : x \in Sec_Sections}
    \cup {Sec_Request(TRUE, "array", d, t) :
            d \in {d \in SeqsUpTo(Sec_MultiSections, MaxSlides) : Len(d) # 1},
            t \in Sec_ThemeRefs}
    \cup {Sec_Request(TRUE, k, <<>>, t) :
            k \in {"undefined", "null", "string", "object", "number"}, t \in Sec_ThemeRefs}
    \cup {Sec_Request(FALSE, "undefined", <<>>, RefUndefined)}

Sec_Init ==
    /\ themes = themesInit
    /\ req \in Sec_Requests
    /\ pc = "start"
    /\ idx = 1
    /\ theme = [NullTheme EXCEPT !.properties = Sec_EmptyObject]
    /\ deck = <<>>
    /\ resp = NoResponse
    /\ exports = 0

Sec_Next == Sec_POST_Validate \/ Sec_POST_Slide \/ Sec_POST_Write

SpecSections == Sec_Init /\ [][Sec_Next]_vars

\* C6: a request whose sections are missing, no array, or empty is rejected
\* before any layout work: the handler answers with a failure that carries
\* no artifact -- the validation failure of status 400 whenever the body
\* could be read -- and no slide is added and no command appended
C6_RejectedBeforeLayout ==
    (~req.bodyOk \/ req.sectionsKind # "array" \/ Len(req.slides) = 0) =>
        /\ deck = <<>>
        /\ pc \in {"start", "done"}
        /\ pc = "done" =>
              /\ ~resp.hasArtifact /\ resp.artifact = <<>>
              /\ resp.status = IF req.bodyOk THEN 400 ELSE 500
              /\ req.bodyOk => resp.error = "Invalid or missing sections data"

\* an empty array of sections, rejected
C6_Witness ==
    /\ pc = "done" /\ req.bodyOk /\ req.sectionsKind = "array" /\ Len(req.slides) = 0
    /\ resp.status = 400 /\ deck = <<>>

----------------------------------------------------------------------------
(* The handler that composes every slide with a copy of the theme          *)
(* (src/unnamed/part_001): getRichTextFromNode, getTextNodeStyle,          *)
(* processNode, addSlideContent, POST. Its definitions carry the prefix    *)
(* P1_. It reads the registry with the resolveTheme modelled above.        *)

\* most exports the server handles after the first one
MaxExports == 1

\* traverse: a leaf gives a run only when its text is not blank
RECURSIVE P1_traverse(_, _)
P1_traverse(children, options) ==
    IF Len(children) = 0 THEN <<>>
    ELSE LET child == Head(children)
             newOptions == withMarks(options, child)
             mine == IF truthy(child.text)
                     THEN (IF truthy(trim(child.text))
                           THEN <<[text |-> child.text, options |-> newOptions]>>
                           ELSE <<>>)
                     ELSE P1_traverse(child.children, newOptions)
         IN  mine \o P1_traverse(Tail(children), options)

\* the runs of a node; every run also carries the base options, which the
\* model keeps once, as the style of the command
P1_getRichTextFromNode(node) == P1_traverse(node.children, {})

P1_getTextNodeStyle(node, th) ==
    CASE node.type = "h1" -> HeadingStyle(th, 36, TRUE)
      [] node.type = "h2" -> HeadingStyle(th, 28, TRUE)
      [] node.type = "h3" -> HeadingStyle(th, 24, TRUE)
      [] node.type = "h4" -> HeadingStyle(th, 20, TRUE)
      [] node.type = "p" -> BodyStyle(th, th.properties.light.text, 18, FALSE)
      [] node.type = "bullet" -> BodyStyle(th, th.properties.light.text, 16, TRUE)
      [] OTHER -> BodyStyle(th, th.properties.light.text, 16, FALSE)

\* (textContent.match(/\n/g) || []).length + 1
P1_lineCount(richText) ==
    LET acc[k \in 0..Len(richText)] ==
            IF k = 0 THEN 0
            ELSE acc[k - 1]
                 + Cardinality({i \in 1..Len(richText[k].text) : richText[k].text[i] = "\n"})
    IN  acc[Len(richText)] + 1

\* Math.max((lineCount * fontSize * 1.5) / 72, 0.5), in units of 1/720 inch
P1_elemHeight(richText, style) == Max2(P1_lineCount(richText) * style.fontSize * 15, 360)

\* gap after a heading or paragraph 0.1, after a bullet item 0.05, and the
\* advance after an image 2.2
P1_TextGap == 72
P1_BulletGap == 36
P1_ImageAdvance == 1584

RECURSIVE P1_processNode(_, _, _, _)

P1_nextNode(before, node, th, area) ==
    IF before.ok THEN thenNode(before, P1_processNode(node, th, area, before.y)) ELSE before

P1_layoutNodes(nodes, th, area, y) ==
    LET after[k \in 0..Len(nodes)] ==
            IF k = 0 THEN Result(y, <<>>, TRUE, {})
            ELSE P1_nextNode(after[k - 1], nodes[k], th, area)
    IN  after[Len(nodes)]

P1_nextColumn(before, column, index, colW, th, area, y) ==
    IF before.ok
    THEN thenColumn(before, P1_layoutNodes(column.children, th, columnArea(area, index, colW), y))
    ELSE before

P1_layoutColumns(columns, colW, th, area, y) ==
    LET after[k \in 0..Len(columns)] ==
            IF k = 0 THEN Result(y, <<>>, TRUE, {})
            ELSE P1_nextColumn(after[k - 1], columns[k], k - 1, colW, th, area, y)
    IN  after[Len(columns)]

P1_columnsOf(columns, th, area, y) ==
    IF Len(columns) = 0 THEN Result(y, <<>>, TRUE, {})
    ELSE closeColumns(P1_layoutColumns(columns, columnWidth(area, Len(columns)), th, area, y))

P1_image(node, area, y) ==
    IF truthy(node.url)
    THEN IF addImageThrows(node.url)
         THEN Result(y, <<>>, FALSE, {})
         ELSE Result(y + P1_ImageAdvance,
                     <<ImageCmd(area.x, y, area.w, ImageHeight, node.url, "contain")>>,
                     TRUE, {})
    ELSE Result(y, <<>>, TRUE, {})

\* the switch of processNode, for a node that has a run
P1_switch(node, th, area, y, richText, style, elemHeight) ==
    CASE node.type \in {"h1", "h2", "h3", "h4", "p"} ->
            Result(y + elemHeight + P1_TextGap,
                   <<TextCmd(area.x, y, area.w, elemHeight, richText, "",
                             [style EXCEPT !.align = IF node.type = "p" THEN "left" ELSE "center"])>>,
                   TRUE, {})
      [] node.type = "img" -> P1_image(node, area, y)
      [] node.type = "column" ->
            P1_columnsOf(SelectSeq(node.children, LAMBDA c : c.type = "column_item"), th, area, y)
      [] node.type = "bullets" -> P1_layoutNodes(node.children, th, area, y)
      [] node.type = "bullet" ->
            Result(y + elemHeight + P1_BulletGap,
                   <<TextCmd(area.x + BulletIndent, y, area.w - BulletIndent, elemHeight,
                             richText, "", style)>>,
                   TRUE, {})
      [] OTHER -> Result(y, <<>>, TRUE, {})

\* if (!richText.some(t => t.text?.trim())) return y
P1_body(node, th, area, y, richText, style) ==
    IF Len(richText) = 0 THEN Result(y, <<>>, TRUE, {})
    ELSE P1_switch(node, th, area, y, richText, style, P1_elemHeight(richText, style))

P1_processNode(node, th, area, y) ==
    recorded(node, area, y,
             P1_body(node, th, area, y, P1_getRichTextFromNode(node),
                     P1_getTextNodeStyle(node, th)))

\* the theme object a slide is composed with. ref tells which object it is:
\* "slide" an object of its own, "base" the object baseTheme itself
P1_SlideTheme(ref, properties) == [ref |-> ref, properties |-> properties]

\* the slide theme being the base theme itself, not a copy of it
P1_clone_SameObject(base) == P1_SlideTheme("base", base.properties)

\* JSON.parse(JSON.stringify(baseTheme)): a new object built from the
\* serialised palettes and fonts of the base theme
P1_clone(base) ==
    P1_SlideTheme("slide",
        IF base.properties.shape # "full" THEN EmptyObject
        ELSE Properties(Palette(base.properties.light.background, base.properties.light.text,
                                base.properties.light.heading, base.properties.light.muted),
                        Palette(base.properties.dark.background, base.properties.dark.text,
                                base.properties.dark.heading, base.properties.dark.muted)))

IsHex(c) ==
    c \in {"0", "1", "2", "3", "4", "5", "6", "7", "8", "9",
           "A", "B", "C", "D", "E", "F", "a", "b", "c", "d", "e", "f"}
hexValue(c) ==
    CASE c = "0" -> 0 [] c = "1" -> 1 [] c = "2" -> 2 [] c = "3" -> 3 [] c = "4" -> 4
      [] c = "5" -> 5 [] c = "6" -> 6 [] c = "7" -> 7 [] c = "8" -> 8 [] c = "9" -> 9
      [] c \in {"A", "a"} -> 10 [] c \in {"B", "b"} -> 11 [] c \in {"C", "c"} -> 12
      [] c \in {"D", "d"} -> 13 [] c \in {"E", "e"} -> 14 [] c \in {"F", "f"} -> 15

\* String.prototype.substring(from, to), 0-based, clipped to the string
substring(s, from, to) ==
    SubSeq(s, (IF from < Len(s) THEN from ELSE Len(s)) + 1, IF to < Len(s) THEN to ELSE Len(s))

NaN == -1

\* parseInt(s, 16) of a string of at most two characters, none of them a
\* space or a sign: the value of its longest prefix of hex digits, NaN when
\* that prefix is empty
parseInt16(s) ==
    IF Len(s) = 0 \/ ~IsHex(s[1]) THEN NaN
    ELSE IF Len(s) = 1 \/ ~IsHex(s[2]) THEN hexValue(s[1])
    ELSE 16 * hexValue(s[1]) + hexValue(s[2])

\* the colours (r, g, b) of luminance exactly 0.5 for which the double
\* arithmetic of (0.299 * r + 0.587 * g + 0.114 * b) / 255 gives a result
\* below 0.5; for the other 70 colours of luminance 0.5 it gives 0.5, and
\* for every other colour it is on the side of the exact value
RoundsBelowHalf ==
    {
     <<0, 204, 68>>, <<12, 174, 191>>, <<15, 195, 75>>, <<23, 175, 157>>, <<30, 186, 82>>, <<38, 166, 164>>,
     <<41, 187, 48>>, <<53, 157, 171>>, <<56, 178, 55>>, <<64, 158, 137>>, <<71, 169, 62>>, <<79, 149, 144>>,
     <<86, 160, 69>>, <<87, 129, 226>>, <<94, 140, 151>>, <<97, 161, 35>>, <<102, 120, 233>>, <<112, 152, 42>>,
     <<117, 111, 240>>, <<120, 132, 124>>, <<127, 143, 49>>, <<132, 102, 247>>, <<135, 123, 131>>, <<138, 144, 15>>,
     <<143, 103, 213>>, <<147, 93, 254>>, <<153, 135, 22>>, <<158, 94, 220>>, <<161, 115, 104>>, <<168, 126, 29>>,
     <<173, 85, 227>>, <<176, 106, 111>>, <<188, 76, 234>>, <<194, 118, 2>>, <<198, 108, 43>>, <<199, 77, 200>>,
     <<209, 109, 9>>, <<214, 68, 207>>, <<217, 89, 91>>, <<224, 100, 16>>, <<232, 80, 98>>, <<239, 91, 23>>,
     <<240, 60, 180>>, <<255, 51, 187>>}

\* luminance < 0.5, luminance = (0.299 r + 0.587 g + 0.114 b) / 255 in
\* double arithmetic; a comparison with NaN is false
luminanceBelowHalf(r, g, b) ==
    /\ r # NaN /\ g # NaN /\ b # NaN
    /\ \/ 299 * r + 587 * g + 114 * b < 127500
       \/ <<r, g, b>> \in RoundsBelowHalf

isDark(bgHex) ==
    luminanceBelowHalf(parseInt16(substring(bgHex, 0, 2)), parseInt16(substring(bgHex, 2, 4)),
                       parseInt16(substring(bgHex, 4, 6)))

\* slideData.bgColor ?? themeColors.background
P1_finalBgColor(slideData, slideTheme) ==
    IF slideData.bgColor # <<>> THEN slideData.bgColor
    ELSE slideTheme.properties.light.background

\* lines 318-322: light text on a dark background
P1_luminanceOverride(bgHex, slideTheme) ==
    IF isDark(bgHex)
    THEN [slideTheme EXCEPT !.properties.light.text = White,
                            !.properties.light.heading = White,
                            !.properties.light.muted = Mist]
    ELSE slideTheme

\* the try/catch around the root image; white tells whether the default
\* branch went on to set the text and heading colours of the theme
P1_rootImage(slideData) ==
    IF ~truthy(slideData.rootUrl)
    THEN [cmds |-> <<>>, area |-> DefaultArea, failed |-> FALSE, white |-> FALSE]
    ELSE IF addImageThrows(slideData.rootUrl)
    THEN [cmds |-> <<TextCmd(0, 0, PctW(50), PctH(100), <<>>, "[Image not found]", NoStyle)>>,
          area |-> DefaultArea, failed |-> TRUE, white |-> FALSE]
    ELSE CASE slideData.layoutType = "left" ->
                [cmds |-> <<ImageCmd(0, 0, PctW(50), PctH(100), slideData.rootUrl, "cover")>>,
                 area |-> Area(Inch(525, 100), Inch(5, 10), Inch(45, 10), Inch(4625, 1000)),
                 failed |-> FALSE, white |-> FALSE]
           [] slideData.layoutType = "right" ->
                [cmds |-> <<ImageCmd(PctW(50), 0, PctW(50), PctH(100), slideData.rootUrl, "cover")>>,
                 area |-> Area(Inch(25, 100), Inch(5, 10), Inch(45, 10), Inch(4625, 1000)),
                 failed |-> FALSE, white |-> FALSE]
           [] slideData.layoutType = "vertical" ->
                [cmds |-> <<ImageCmd(0, 0, PctW(100), PctH(50), slideData.rootUrl, "cover")>>,
                 area |-> Area(Inch(5, 10), Inch(3, 1), Inch(9, 1), Inch(2125, 1000)),
                 failed |-> FALSE, white |-> FALSE]
           [] OTHER ->
                [cmds |-> <<ImageCmd(0, 0, PctW(100), PctH(100), slideData.rootUrl, "cover"),
                            ShapeCmd(0, 0, PctW(100), PctH(100))>>,
                 area |-> DefaultArea, failed |-> FALSE, white |-> TRUE]

\* lines 241-242: the theme after the root image
P1_afterRoot(slideTheme, root) ==
    IF root.white
    THEN [slideTheme EXCEPT !.properties.light.text = White, !.properties.light.heading = White]
    ELSE slideTheme

\* what composing a slide did, and the theme object as it was left
P1_composed(root, body, slideTheme) ==
    [cmds |-> root.cmds \o body.cmds, ok |-> body.ok, area |-> root.area,
     placed |-> body.placed, rootFailed |-> root.failed, calls |-> body.calls,
     last |-> body.y, slideTheme |-> slideTheme]

P1_contentOf(slideData, slideTheme, root) ==
    P1_composed(root, P1_layoutNodes(slideData.content, slideTheme, root.area, root.area.y),
                slideTheme)

P1_withRoot(slideData, slideTheme, root) ==
    P1_contentOf(slideData, P1_afterRoot(slideTheme, root), root)

P1_addSlideContent(slideData, slideTheme) ==
    P1_withRoot(slideData, slideTheme, P1_rootImage(slideData))

\* a slide of the deck: what DeckSlide keeps, the light palette its theme
\* object had when the iteration began, and the one it had in the end
P1_DeckSlide(background, startColors, c) ==
    [background |-> background, cmds |-> c.cmds, complete |-> c.ok, placed |-> c.placed,
     area |-> c.area, rootFailed |-> c.rootFailed, calls |-> c.calls, last |-> c.last,
     started |-> TRUE, startColors |-> startColors,
     colors |-> c.slideTheme.properties.light]
P1_EmptySlide ==
    [background |-> <<>>, cmds |-> <<>>, complete |-> FALSE, placed |-> 0,
     area |-> DefaultArea, rootFailed |-> FALSE, calls |-> {}, last |-> 0,
     started |-> FALSE, startColors |-> EmptyObject.light, colors |-> EmptyObject.light]

\* lines 267-297: read the id, look the presentation up, resolve the theme
P1_POST_Lookup ==
    /\ pc = "start"
    /\ IF ~req.hasId
       THEN /\ resp' = Failure(400, "Invalid or missing presentation ID")
            /\ pc' = "done"
            /\ UNCHANGED theme
       ELSE IF ~req.found
       THEN /\ resp' = Failure(404, "Presentation not found")
            /\ pc' = "done"
            /\ UNCHANGED theme
       ELSE LET t == resolveTheme(req.theme, themes)
            IN  /\ theme' = IF t.isNull THEN DefaultTheme(themes) ELSE t
                /\ IF req.hasSlides
                   THEN pc' = "slides" /\ UNCHANGED resp
                   ELSE pc' = "done" /\ resp' = Failure(500, "Internal server error")
    /\ UNCHANGED <<themes, req, idx, deck, exports>>

\* the objects after the writes made to the slide theme: a write to the
\* base theme object is a write to baseTheme.properties, which is the
\* registry entry itself when the theme was resolved from a name
P1_written(slideTheme) ==
    /\ theme' = IF slideTheme.ref = "base"
                THEN [theme EXCEPT !.properties = slideTheme.properties]
                ELSE theme
    /\ themes' = IF slideTheme.ref = "base" /\ theme.registry # ""
                 THEN [themes EXCEPT ![theme.registry] = slideTheme.properties]
                 ELSE themes

\* the handler after addSlideContent: the loop goes on, or the throw ends
\* the handler in its catch (lines 338-346)
P1_SlideDone(background, startColors, c) ==
    /\ deck' = Append(deck, P1_DeckSlide(background, startColors, c))
    /\ P1_written(c.slideTheme)
    /\ IF c.ok
       THEN idx' = idx + 1 /\ UNCHANGED <<pc, resp>>
       ELSE /\ resp' = Failure(500, "Internal server error")
            /\ pc' = "done"
            /\ UNCHANGED idx

\* lines 304-324, with the background colour chosen
P1_slideBody(slideData, slideTheme, finalBgColor) ==
    P1_SlideDone(stripHash(finalBgColor), slideTheme.properties.light,
                 P1_addSlideContent(slideData,
                                    P1_luminanceOverride(stripHash(finalBgColor), slideTheme)))

\* lines 301-324: one iteration of the loop, with the theme of the slide
P1_iteration(slideData, slideTheme) ==
    IF slideTheme.properties.shape # "full"
    THEN /\ deck' = Append(deck, P1_EmptySlide)
         /\ resp' = Failure(500, "Internal server error")
         /\ pc' = "done"
         /\ UNCHANGED <<idx, theme, themes>>
    ELSE P1_slideBody(slideData, slideTheme, P1_finalBgColor(slideData, slideTheme))

\* lines 299-325: one iteration of the loop over the slides
P1_POST_Slide ==
    /\ pc = "slides"
    /\ idx <= Len(req.slides)
    /\ P1_iteration(req.slides[idx], P1_clone(theme))
    /\ UNCHANGED <<req, exports>>

\* lines 327-337: write the deck and answer
P1_POST_Write ==
    /\ pc = "slides"
    /\ idx > Len(req.slides)
    /\ IF \E i \in 1..Len(deck) : \E k \in 1..Len(deck[i].cmds) :
              deck[i].cmds[k].kind = "image" /\ fetchFails(deck[i].cmds[k].path)
       THEN resp' = Failure(500, "Internal server error")
       ELSE IF headerThrows(contentDisposition(fileNameOf(req.title)))
       THEN resp' = Failure(500, "Internal server error")
       ELSE resp' = Success(deck, fileNameOf(req.title))
    /\ pc' = "done"
    /\ UNCHANGED <<themes, req, idx, theme, deck, exports>>

\* the inputs of this handler
\* #00CC44: a colour of luminance exactly 0.5
HalfLuminance == <<"#", "0", "0", "C", "C", "4", "4">>
tTwoLines == <<"a", "\n", "b">>
NotAColor == <<"#", "z", "z">>

P1_Contents ==
    {<<h1A, pA>>, <<pA>>, <<>>, <<imgCaption, bulletA>>, <<imgOk, pBlank>>,
     <<Text("p", tTwoLines), h6A>>, <<Bullets(<<bulletA, bulletBlank>>)>>,
     <<Column(<<Item(<<pA>>), Item(<<h1A, pASpace>>)>>), pAB>>,
     <<Column(<<Item(<<pBlank>>)>>), pA>>, <<Img(UrlInvalid, <<Leaf(tA, {})>>), pA>>}

P1_Slides ==
    {Slide(c, "", "", <<>>) : c \in P1_Contents}
    \cup {Slide(<<h1A, pA>>, u, l, <<>>) : u \in {UrlOk, UrlInvalid, UrlDead}, l \in LayoutTypes}
    \cup {Slide(<<h1A, pA>>, "", "", bg) : bg \in {Night, White, Grey, NotAColor, HalfLuminance}}
    \cup {Slide(<<pA>>, UrlOk, "", Night)}

P1_MultiSlides ==
    {Slide(<<h1A, pA>>, "", "", <<>>), Slide(<<h1A, pA>>, "", "", Night),
     Slide(<<pA>>, UrlOk, "", <<>>), Slide(<<pA>>, UrlOk, "left", White)}

P1_ThemeRefs ==
    {RefUndefined, RefName("daktilo"), RefName("noir"), RefInline(LightProps),
     RefInline(DarkProps), RefResolved("mine", LightProps), RefInline(EmptyObject)}

P1_Requests ==
    {Request(TRUE, TRUE, t, TRUE, <<s>>, Title) : s \in P1_Slides, t \in {RefName("daktilo"), RefName("noir")}}
    \cup {Request(TRUE, TRUE, t, TRUE, d, Title) :
            t \in P1_ThemeRefs, d \in {d \in SeqsUpTo(P1_MultiSlides, MaxSlides) : Len(d) # 1}}
    \cup {Request(FALSE, FALSE, RefUndefined, FALSE, <<>>, <<>>),
          Request(TRUE, FALSE, RefUndefined, FALSE, <<>>, <<>>),
          Request(TRUE, TRUE, RefName("daktilo"), FALSE, <<>>, Title)}

\* the next request reaches the server: the registry is the module object
\* the earlier exports used, everything else is local to the new call
P1_NewRequest ==
    /\ pc = "done"
    /\ exports < MaxExports
    /\ exports' = exports + 1
    /\ req' \in P1_Requests
    /\ pc' = "start"
    /\ idx' = 1
    /\ theme' = NullTheme
    /\ deck' = <<>>
    /\ resp' = NoResponse
    /\ UNCHANGED themes

P1_Init ==
    /\ themes = themesInit
    /\ req \in P1_Requests
    /\ pc = "start"
    /\ idx = 1
    /\ theme = NullTheme
    /\ deck = <<>>
    /\ resp = NoResponse
    /\ exports = 0

P1_Next == P1_POST_Lookup \/ P1_POST_Slide \/ P1_POST_Write \/ P1_NewRequest

SpecSlideTheme == P1_Init /\ [][P1_Next]_vars

\* the base theme a request resolves to with the registry as it was when
\* the server started
P1_OriginalTheme ==
    LET t == resolveTheme(req.theme, themesInit)
    IN  IF t.isNull THEN DefaultTheme(themesInit) ELSE t

\* C3: the colour overrides made while one slide is composed are not seen
\* by any other slide or export: the registry keeps the palettes it started
\* with, the base theme of the export keeps the palette it was resolved to,
\* every slide starts from that palette, and resolving the reference of the
\* request again gives the same theme
C3_NoLeak ==
    /\ themes = themesInit
    /\ (pc # "start" /\ req.hasId /\ req.found) => theme = P1_OriginalTheme
    /\ \A i \in 1..Len(deck) :
          deck[i].started => deck[i].startColors = P1_OriginalTheme.properties.light
    /\ resolveTheme(req.theme, themes) = resolveTheme(req.theme, themesInit)

\* in a second export with a theme of the registry: a first slide whose
\* colours were overridden (dark background), then a slide with no override
\* that was composed with the colours of the theme, its text drawn in them
C3_Witness ==
    /\ exports = 1 /\ pc = "done" /\ resp.status = 200 /\ theme.registry = "daktilo"
    /\ Len(deck) = 2
    /\ deck[1].colors.text = White /\ deck[1].startColors.text = Ink
    /\ deck[1].cmds[2].style.color = stripHash(White)
    /\ deck[2].colors = deck[2].startColors /\ deck[2].colors.text = Ink
    /\ deck[2].cmds[2].style.color = stripHash(Ink)

----------------------------------------------------------------------------
(* Properties of the text boxes of the layout engine *)

\* the fixed gap after a text block: 0.1 after a heading or a paragraph,
\* 0.05 after a bullet item
GapAfter(type) == IF type = "bullet" THEN Inch(5, 100) ELSE Inch(1, 10)

\* max(lineCount x fontSize x 1.5 / 72, 0.5) of a text box, from its runs
\* and its font size
FlooredHeight(cmd) == Max2(P1_lineCount(cmd.runs) * cmd.style.fontSize * 15, Inch(5, 10))

\* C13: a text node (h1-h4, p, bullet) with a non-blank run gives one text
\* box of height max(lineCount x fontSize x 1.5 / 72, 0.5), so of height at
\* least 0.5, and returns y + that height + the gap of its type
C13_FlooredHeight ==
    \A c \in AllCalls :
        (c.node.type \in {"h1", "h2", "h3", "h4", "p", "bullet"} /\ nonBlankLeaves(c.node) > 0) =>
            /\ c.ok /\ Len(c.cmds) = 1 /\ c.cmds[1].kind = "text"
            /\ c.cmds[1].h = FlooredHeight(c.cmds[1])
            /\ c.cmds[1].h >= Inch(5, 10)
            /\ c.ret = c.y + c.cmds[1].h + GapAfter(c.node.type)

----------------------------------------------------------------------------
(* The order of the commands of a slide *)

Concat(n, f(_)) ==
    LET acc[k \in 0..n] == IF k = 0 THEN <<>> ELSE acc[k - 1] \o f(k)
    IN  acc[n]

\* the nodes of the tree of n that append a command, in depth-first order:
\* the text blocks with a non-blank leaf, the chart and visualization nodes,
\* the image nodes with a url
RECURSIVE emitters(_)
emitters(n) ==
    CASE n.type \in TextTypes -> (IF nonBlankLeaves(n) > 0 THEN <<n>> ELSE <<>>)
      [] n.type \in {"chart", "visualization-list"} -> <<n>>
      [] n.type = "img" -> (IF truthy(n.url) THEN <<n>> ELSE <<>>)
      [] n.type = "bullets" -> Concat(Len(n.children), LAMBDA k : emitters(n.children[k]))
      [] n.type = "column" ->
            Concat(Len(ColumnItems(n)),
                   LAMBDA k : Concat(Len(ColumnItems(n)[k].children),
                                     LAMBDA j : emitters(ColumnItems(n)[k].children[j])))
      [] OTHER -> <<>>

\* whether cmd is the command of node n
CommandOf(cmd, n) ==
    CASE n.type \in TextTypes ->
            /\ cmd.kind = "text" /\ cmd.label = ""
            /\ cmd.runs = getRichTextFromNode(n)
            /\ cmd.style.fontSize = getTextNodeStyle(n, theme).fontSize
      [] n.type = "chart" -> cmd.kind = "text" /\ cmd.label = "[Chart]"
      [] n.type = "visualization-list" -> cmd.kind = "text" /\ cmd.label = "[Visualization]"
      [] OTHER -> cmd.kind = "image" /\ cmd.path = n.url /\ cmd.sizing = "contain"

\* the number of commands the root image of slide i gave
RootCommands(i) ==
    IF ~truthy(req.slides[i].rootUrl) THEN 0
    ELSE IF deck[i].rootFailed \/ req.slides[i].layoutType \in {"left", "right", "vertical"} THEN 1
    ELSE 2

\* C14: the commands of a slide are the command of the root image (and its
\* overlay) first, then the commands of the nodes of the content that append
\* one, each once, in the depth-first order of the tree, columns and nested
\* lists included; a slide ended by a throw holds a prefix of them
C14_DocumentOrder ==
    \A i \in 1..Len(deck) :
        (deck[i].complete \/ deck[i].cmds # <<>>) =>
            LET cmds == deck[i].cmds
                root == RootCommands(i)
                expected == Concat(Len(req.slides[i].content),
                                   LAMBDA k : emitters(req.slides[i].content[k]))
            IN  /\ Len(cmds) >= root
                /\ Len(cmds) - root <= Len(expected)
                /\ deck[i].complete => Len(cmds) - root = Len(expected)
                /\ root >= 1 =>
                      \/ cmds[1].kind = "image" /\ cmds[1].path = req.slides[i].rootUrl
                      \/ cmds[1].kind = "text" /\ deck[i].rootFailed
                /\ root = 2 => cmds[2].kind = "shape"
                /\ \A k \in 1..(Len(cmds) - root) : CommandOf(cmds[root + k], expected[k])

\* a column block whose first column holds a paragraph and whose second
\* column holds a list of a bullet and an image: paragraph, bullet, image
C14_Witness ==
    \E i \in 1..Len(deck) :
        /\ deck[i].complete /\ Len(deck[i].cmds) = 3
        /\ req.slides[i].content[1].type = "column"
        /\ deck[i].cmds[1].x < deck[i].cmds[2].x
        /\ deck[i].cmds[1].kind = "text" /\ ~deck[i].cmds[1].style.bullet
        /\ deck[i].cmds[2].kind = "text" /\ deck[i].cmds[2].style.bullet
        /\ deck[i].cmds[3].kind = "image" /\ deck[i].cmds[3].y > deck[i].cmds[2].y

----------------------------------------------------------------------------
(* The runs of a node *)

\* one run for each leaf below children that carries non-blank text, in
\* depth-first order, with the flags set on the path down to the leaf
RECURSIVE flaggedLeaves(_, _)
flaggedLeaves(children, flags) ==
    Concat(Len(children),
           LAMBDA k :
              IF children[k].type = ""
              THEN (IF truthy(trim(children[k].text))
                    THEN <<[text |-> children[k].text,
                            options |-> flags \cup {markOption(m) : m \in children[k].marks}]>>
                    ELSE <<>>)
              ELSE flaggedLeaves(children[k].children,
                                 flags \cup {markOption(m) : m \in children[k].marks}))

\* C15: getRichTextFromNode gives exactly one run for each leaf of the node
\* with non-blank text and none for any other leaf, in depth-first order,
\* each run with the flags of the nodes on its path and no others
C15_RunsOfNonBlankLeaves ==
    \A c \in AllCalls : getRichTextFromNode(c.node) = flaggedLeaves(c.node.children, {})

----------------------------------------------------------------------------
(* The colours a slide is composed with (src/unnamed/part_001) *)

\* the value of a hex digit: its place in 0123456789ABCDEF
HexPlace(c) ==
    LET digits == <<"0", "1", "2", "3", "4", "5", "6", "7", "8", "9",
                    "A", "B", "C", "D", "E", "F">>
    IN  (CHOOSE k \in 1..16 : digits[k] = c) - 1

\* a colour written #RRGGBB with upper-case hex digits
WellFormed(colour) ==
    /\ Len(colour) = 7 /\ colour[1] = "#"
    /\ \A k \in 2..7 : colour[k] \in {"0", "1", "2", "3", "4", "5", "6", "7", "8", "9",
                                       "A", "B", "C", "D", "E", "F"}

\* (0.299 R + 0.587 G + 0.114 B) / 255 < 0.5, times 255000
LuminanceBelowHalf(colour) ==
    /\ WellFormed(colour)
    /\ 299 * (16 * HexPlace(colour[2]) + HexPlace(colour[3]))
         + 587 * (16 * HexPlace(colour[4]) + HexPlace(colour[5]))
         + 114 * (16 * HexPlace(colour[6]) + HexPlace(colour[7])) < 127500

\* slide i was composed (its iteration reached addSlideContent) and has no
\* full-bleed image: no root image, one of layout left, right or vertical,
\* or one that could not be added
NoFullBleed(i) ==
    /\ deck[i].started
    /\ \/ ~truthy(req.slides[i].rootUrl)
       \/ req.slides[i].layoutType \in {"left", "right", "vertical"}
       \/ deck[i].rootFailed

LightValues(colors) == colors.text = White /\ colors.heading = White /\ colors.muted = Mist

\* C16: the colours of a slide without full-bleed image are set to the
\* light values exactly when the slide declares a background colour of
\* luminance below 0.5; a slide that declares none keeps the theme colours
C16_OverrideIffExplicitDark ==
    \A i \in 1..Len(deck) :
        NoFullBleed(i) =>
            IF req.slides[i].bgColor # <<>> /\ LuminanceBelowHalf(req.slides[i].bgColor)
            THEN LightValues(deck[i].colors)
            ELSE deck[i].colors = deck[i].startColors


----------------------------------------------------------------------------
(* The vertical flow *)

\* the recorded call on node with the area (x, w) at cursor y
CallAt(calls, node, x, w, y) ==
    {c \in calls : c.node = node /\ c.x = x /\ c.w = w /\ c.y = y}

\* the calls on a sequence of nodes placed one after the other in the area
\* (x, w) from cursor y, as far as they were made: flow[k] is the set of the
\* call on nodes[k] (empty when a throw ended the layout before it)
Flow(calls, nodes, x, w, y) ==
    LET flow[k \in 1..Len(nodes)] ==
            IF k = 1 THEN CallAt(calls, nodes[1], x, w, y)
            ELSE UNION {CallAt(calls, nodes[k], x, w, c.ret) : c \in {d \in flow[k - 1] : d.ok}}
    IN  flow

\* in a flow every box of a later node lies strictly below every box of an
\* earlier node
Stacked(flow, n) ==
    \A k, m \in 1..n :
        k < m =>
            \A a \in flow[k], b \in flow[m] :
                \A p \in 1..Len(a.cmds), q \in 1..Len(b.cmds) :
                    b.cmds[q].y > a.cmds[p].y + a.cmds[p].h

\* C17: processNode returns a cursor not smaller than the one it was given,
\* and of two nodes placed one after the other in the same area -- top-level
\* nodes of a slide, items of a bullet list -- the boxes of the later one
\* begin strictly below the bottom of the boxes of the earlier one
C17_FlowDownward ==
    /\ \A c \in AllCalls : c.ok => c.ret >= c.y
    /\ \A i \in 1..Len(deck) :
          Len(req.slides[i].content) > 0 =>
             Stacked(Flow(deck[i].calls, req.slides[i].content,
                          deck[i].area.x, deck[i].area.w, deck[i].area.y),
                     Len(req.slides[i].content))
    /\ \A i \in 1..Len(deck) : \A c \in deck[i].calls :
          (c.node.type = "bullets" /\ Len(c.node.children) > 0) =>
             Stacked(Flow(deck[i].calls, c.node.children, c.x, c.w, c.y),
                     Len(c.node.children))

\* a heading then a paragraph: two text boxes, the heading centred, the
\* paragraph not, the paragraph below the bottom of the heading
C17_Witness ==
    \E i \in 1..Len(deck) :
        /\ deck[i].complete /\ Len(deck[i].cmds) = 2
        /\ req.slides[i].content = <<h1A, pA>>
        /\ deck[i].cmds[1].style.align = "center" /\ deck[i].cmds[1].style.bold
        /\ deck[i].cmds[2].style.align # "center"
        /\ deck[i].cmds[2].y > deck[i].cmds[1].y + deck[i].cmds[1].h
        /\ deck[i].last > deck[i].cmds[2].y + deck[i].cmds[2].h

----------------------------------------------------------------------------
(* Charts, visualizations and unrecognized nodes *)

\* the node types processNode has a case for
RecognizedTypes == TextTypes \cup {"img", "column", "bullets", "chart", "visualization-list"}

\* C18: a chart or visualization node gives exactly one placeholder label,
\* a text box of height 0.5 at the cursor with the x and width of the area,
\* and the cursor advances by 0.6; a node of any other unrecognized type
\* gives nothing, returns the cursor unchanged and does not throw
C18_PlaceholderOrNoOp ==
    \A c \in AllCalls :
        /\ c.node.type \in {"chart", "visualization-list"} =>
              /\ c.ok /\ Len(c.cmds) = 1
              /\ c.cmds[1].kind = "text"
              /\ c.cmds[1].label = IF c.node.type = "chart" THEN "[Chart]" ELSE "[Visualization]"
              /\ c.cmds[1].x = c.x /\ c.cmds[1].y = c.y /\ c.cmds[1].w = c.w
              /\ c.cmds[1].h = Inch(5, 10)
              /\ c.ret = c.y + Inch(6, 10)
        /\ c.node.type \notin RecognizedTypes => (c.ok /\ c.cmds = <<>> /\ c.ret = c.y)

\* a column block: in its first column a block quote, which is no node type
\* of the engine, then a chart at the cursor the quote left unchanged; in its
\* second column a visualization below a paragraph
C18_Witness ==
    \E q, c, v \in AllCalls :
        /\ q.node = quoteA /\ q.cmds = <<>> /\ q.ret = q.y
        /\ c.node.type = "chart" /\ c.x = q.x /\ c.y = q.y /\ c.w < DefaultArea.w
        /\ c.cmds[1].label = "[Chart]" /\ c.ret = c.y + PlaceholderAdvance
        /\ v.node.type = "visualization-list" /\ v.x > c.x /\ v.y > c.y
        /\ v.cmds[1].label = "[Visualization]" /\ v.cmds[1].h = PlaceholderHeight

====
